---- MODULE Spec2Model ----
(***************************************************************************)
(* A model of the coordinate layer of eg-react:                            *)
(*   - NavigationContext (frontend/src/model/NavigationContext.ts)         *)
(*   - IntervalArranger  (unnamed/part_000)                                *)
(* Strings are sequences of one-character strings, so that parsing a       *)
(* locus text is a computation on characters.  A Feature is a record whose *)
(* field `id` is the identity of the JavaScript object.                    *)
(***************************************************************************)
EXTENDS Integers, Sequences, FiniteSets, TLC

VARIABLES
    pc,             \* "new", "built", "threw", "returned", "arranged"
    features,       \* the Feature[] handed to the NavigationContext constructor
    navContext,     \* the fields of the NavigationContext instance
    call,           \* the last method call: its name and arguments
    err,            \* "" or the kind of error the last call raised
    ret,            \* the value the last call returned, in a sequence
    arranger,       \* the IntervalArranger instance: drawModel, numRows, getPadding
    intervals,      \* the caller's array handed to IntervalArranger.arrange
    given           \* the caller's array as it was when arrange was called

vars == <<pc, features, navContext, call, err, ret, arranger, intervals, given>>

----------------------------------------------------------------------------
(* Bounds of the model *)

MaxFeatures == 3    \* longest feature list of a context
MaxLen == 2         \* longest feature, in bases
MaxIntervals == 3   \* longest interval list handed to arrange
MaxCoord == 2       \* largest coordinate of an interval handed to arrange
MaxRows == 2        \* largest numRows of an arranger
MaxPlaced == 1      \* longest list of features or interactions handed to the placer
MaxPixelsPerBase == 2   \* most pixels a base of the view is drawn with

----------------------------------------------------------------------------
(* Small helpers *)

Range(s) == {s[i] : i \in 1..Len(s)}

Max(a, b) == IF a >= b THEN a ELSE b

Min(a, b) == IF a <= b THEN a ELSE b

SeqsUpTo(S, n) == UNION {[1..k -> S] : k \in 0..n}

RECURSIVE SumSeq(_)
SumSeq(s) == IF s = <<>> THEN 0 ELSE s[1] + SumSeq(Tail(s))

DigitChars == <<"0", "1", "2", "3", "4", "5", "6", "7", "8", "9">>

Ok(v) == [err |-> "", val |-> v]

Throw(kind) == [err |-> kind, val |-> <<>>]

----------------------------------------------------------------------------
(* Interval primitives: OpenInterval, ChromosomeInterval *)

OpenInterval(start, end) == [start |-> start, end |-> end]

IntervalLength(interval) == interval.end - interval.start

\* OpenInterval.getOverlap: <<>> stands for null
IntervalOverlap(a, b) ==
    LET intersectionStart == Max(a.start, b.start)
        intersectionEnd == Min(a.end, b.end)
    IN  IF intersectionStart < intersectionEnd
        THEN <<OpenInterval(intersectionStart, intersectionEnd)>>
        ELSE <<>>

ChromosomeInterval(chr, start, end) == [chr |-> chr, start |-> start, end |-> end]

\* ChromosomeInterval.getOverlap: the chromosomes must be equal
ChrIntervalOverlap(a, b) ==
    IF a.chr # b.chr THEN <<>>
    ELSE LET o == IntervalOverlap(a, b)
         IN  IF o = <<>> THEN <<>> ELSE <<ChromosomeInterval(a.chr, o[1].start, o[1].end)>>

\* The order of chromosome names that mergeOverlaps sorts by
ChrNames == <<<<>>, <<"c", "1">>, <<"c", "2">>, <<"c", "3">>>>

ChrRank(chr) == CHOOSE r \in 1..Len(ChrNames) : ChrNames[r] = chr

LocusBefore(a, b) ==
    \/ ChrRank(a.chr) < ChrRank(b.chr)
    \/ ChrRank(a.chr) = ChrRank(b.chr) /\ a.start < b.start

RECURSIVE SortLoci(_)
SortLoci(loci) ==
    IF loci = <<>> THEN <<>>
    ELSE LET rest == SortLoci(Tail(loci))
             x == loci[1]
             after == {k \in 1..Len(rest) : ~LocusBefore(rest[k], x)}
             at == IF after = {} THEN Len(rest) + 1
                   ELSE CHOOSE k \in after : \A q \in after : k <= q
         IN  SubSeq(rest, 1, at - 1) \o <<x>> \o SubSeq(rest, at, Len(rest))

RECURSIVE MergeSorted(_, _)
MergeSorted(sorted, merged) ==
    IF sorted = <<>> THEN merged
    ELSE LET x == sorted[1]
             n == Len(merged)
         IN  IF n > 0 /\ merged[n].chr = x.chr /\ x.start <= merged[n].end
             THEN MergeSorted(Tail(sorted),
                              [merged EXCEPT ![n].end = Max(merged[n].end, x.end)])
             ELSE MergeSorted(Tail(sorted), Append(merged, x))

\* ChromosomeInterval.mergeOverlaps: sort by (chr, start), then merge the loci
\* that overlap or touch on the same chromosome
mergeOverlaps(loci) == MergeSorted(SortLoci(loci), <<>>)

----------------------------------------------------------------------------
(* Locus text: "chr:start-end" *)

Digits == {DigitChars[i] : i \in 1..Len(DigitChars)}

\* The characters \w matches, among those the model's strings are made of
WordChars == Digits \cup {"a", "b", "c", "f", "z", "G", "_"}

AllIn(str, from, to, chars) == \A i \in from..to : str[i] \in chars

DigitValue(ch) == (CHOOSE i \in 1..Len(DigitChars) : DigitChars[i] = ch) - 1

\* Number.parseInt of a run of digits
RECURSIVE ParseInt(_)
ParseInt(digits) ==
    IF digits = <<>> THEN 0
    ELSE 10 * ParseInt(SubSeq(digits, 1, Len(digits) - 1)) + DigitValue(digits[Len(digits)])

\* The decimal text of a natural number
RECURSIVE DecimalText(_)
DecimalText(n) ==
    IF n < 10 THEN <<DigitChars[n + 1]>>
    ELSE DecimalText(n \div 10) \o <<DigitChars[(n % 10) + 1]>>

\* <<i, j, k, l>>: str[i..j] is a run of [\w:], str[j+1] the colon, str[j+2..k]
\* digits, str[k+1] the dash and str[k+2..l] digits
LocusMatches(str) ==
    {m \in (1..Len(str)) \X (1..Len(str)) \X (1..Len(str)) \X (1..Len(str)) :
        /\ m[1] <= m[2] /\ m[2] + 2 <= m[3] /\ m[3] + 2 <= m[4]
        /\ AllIn(str, m[1], m[2], WordChars \cup {":"})
        /\ str[m[2] + 1] = ":"
        /\ AllIn(str, m[2] + 2, m[3], Digits)
        /\ str[m[3] + 1] = "-"
        /\ AllIn(str, m[3] + 2, m[4], Digits)}

\* str.match(/([\w:]+):(\d+)-(\d+)/) finds a match somewhere in str
MatchesLocusPattern(str) == LocusMatches(str) # {}

\* ChromosomeInterval.parse: the whole text is chr:start-end, with start <= end
ChromosomeIntervalParse(str) ==
    LET whole == {m \in LocusMatches(str) : m[1] = 1 /\ m[4] = Len(str)}
    IN  IF whole = {} THEN Throw("RangeError")
        ELSE LET m == CHOOSE m \in whole : \A o \in whole : o[2] <= m[2]
                 start == ParseInt(SubSeq(str, m[2] + 2, m[3]))
                 end == ParseInt(SubSeq(str, m[3] + 2, m[4]))
             IN  IF end < start THEN Throw("RangeError")
                 ELSE Ok(ChromosomeInterval(SubSeq(str, 1, m[2]), start, end))

----------------------------------------------------------------------------
(* Feature and FeatureSegment *)

GAP_CHR == <<>>

Chr1 == <<"c", "1">>

Chr2 == <<"c", "2">>

Feature(id, name, locus) ==
    [id |-> id, name |-> name, chr |-> locus.chr, start |-> locus.start, end |-> locus.end]

FeatureLength(feature) == feature.end - feature.start

\* new FeatureSegment(feature, relativeStart, relativeEnd)
FeatureSegment(feature, relativeStart, relativeEnd) ==
    [feature |-> feature, relativeStart |-> relativeStart, relativeEnd |-> relativeEnd]

\* new FeatureSegment(feature): the whole feature
WholeSegment(feature) == FeatureSegment(feature, 0, FeatureLength(feature))

\* FeatureSegment.getLocus: the feature's locus, offset by the segment
SegmentLocus(segment) ==
    ChromosomeInterval(segment.feature.chr,
                       segment.feature.start + segment.relativeStart,
                       segment.feature.start + segment.relativeEnd)

\* FeatureSegment.getGenomeOverlap: the part of the segment inside a locus, or null
SegmentGenomeOverlap(segment, chrInterval) ==
    LET overlap == ChrIntervalOverlap(SegmentLocus(segment), chrInterval)
    IN  IF overlap = <<>> THEN <<>>
        ELSE <<FeatureSegment(segment.feature,
                              overlap[1].start - segment.feature.start,
                              overlap[1].end - segment.feature.start)>>

\* NavigationContext.makeGap
makeGap(id, length, name) == Feature(id, name, ChromosomeInterval(GAP_CHR, 0, length))

\* NavigationContext.isGapFeature
isGapFeature(feature) == feature.chr = GAP_CHR

----------------------------------------------------------------------------
(* NavigationContext: construction *)

\* The fields as the constructor sets them before its loop
EmptyContext(fs) ==
    [features |-> fs,
     startCoordinateForFeature |-> [i \in {} |-> 0],
     sortedFeatureStarts |-> <<>>,
     featuresForChr |-> [chr \in {fs[i].chr : i \in 1..Len(fs)} |->
                            SelectSeq(fs, LAMBDA f : f.chr = chr)],
     totalBases |-> 0]

\* Map.has(feature): the map is keyed by the identity of the object
MapHas(map, feature) == feature.id \in DOMAIN map

\* One turn of the constructor's loop with the offsets recorded after the
\* length is added
ConstructorStepLate(nc, feature) ==
    [nc EXCEPT
       !.startCoordinateForFeature =
           [k \in DOMAIN @ \cup {feature.id} |->
               IF k = feature.id THEN nc.totalBases + FeatureLength(feature) ELSE @[k]],
       !.sortedFeatureStarts = Append(@, nc.totalBases + FeatureLength(feature)),
       !.totalBases = @ + FeatureLength(feature)]

\* One turn of the constructor's loop: record the offset, add the length
ConstructorStep(nc, feature) ==
    [nc EXCEPT
       !.startCoordinateForFeature =
           [k \in DOMAIN @ \cup {feature.id} |->
               IF k = feature.id THEN nc.totalBases ELSE @[k]],
       !.sortedFeatureStarts = Append(@, nc.totalBases),
       !.totalBases = @ + FeatureLength(feature)]

\* The constructor's loop from feature i on; nc holds the fields so far
RECURSIVE ConstructorLoop(_, _)
ConstructorLoop(nc, i) ==
    IF i > Len(nc.features) THEN Ok(nc)
    ELSE LET feature == nc.features[i]
         IN  IF MapHas(nc.startCoordinateForFeature, feature)
             THEN Throw("Error")
             ELSE ConstructorLoop(ConstructorStep(nc, feature), i + 1)

NewNavigationContext(fs) == ConstructorLoop(EmptyContext(fs), 1)

----------------------------------------------------------------------------
(* NavigationContext: methods *)

getTotalBases(nc) == nc.totalBases

getIsValidBase(nc, base) == 0 <= base /\ base < nc.totalBases

getFeatureStart(nc, feature) ==
    IF feature.id \in DOMAIN nc.startCoordinateForFeature
    THEN Ok(nc.startCoordinateForFeature[feature.id])
    ELSE Throw("RangeError")

\* lodash's binary search (retHighest): low and high are 0-based
RECURSIVE SortedIndexLoop(_, _, _, _)
SortedIndexLoop(array, value, low, high) ==
    IF low < high
    THEN LET mid == (low + high) \div 2
         IN  IF array[mid + 1] <= value
             THEN SortedIndexLoop(array, value, mid + 1, high)
             ELSE SortedIndexLoop(array, value, low, mid)
    ELSE high

\* The lowest insertion index, moved past one element equal to the value
sortedIndexPastFirst(array, value) ==
    LET lower == Cardinality({k \in 1..Len(array) : array[k] < value})
    IN  IF lower < Len(array) /\ array[lower + 1] = value THEN lower + 1 ELSE lower

sortedLastIndex(array, value) == SortedIndexLoop(array, value, 0, Len(array))

convertBaseToFeatureCoordinate(nc, base) ==
    IF ~getIsValidBase(nc, base) THEN Throw("RangeError")
    ELSE LET index == sortedLastIndex(nc.sortedFeatureStarts, base) - 1
             feature == nc.features[index + 1]
             coordinate == base - nc.sortedFeatureStarts[index + 1]
         IN  Ok(FeatureSegment(feature, coordinate, coordinate))

\* The translation with the segment's offset left out of the start
convertSegmentDroppingOffset(nc, segment) ==
    LET contextStart == getFeatureStart(nc, segment.feature)
    IN  IF contextStart.err # "" THEN contextStart
        ELSE Ok(OpenInterval(contextStart.val,
                             contextStart.val + segment.relativeEnd))

convertFeatureSegmentToContextCoordinates(nc, segment) ==
    LET contextStart == getFeatureStart(nc, segment.feature)
    IN  IF contextStart.err # "" THEN contextStart
        ELSE Ok(OpenInterval(contextStart.val + segment.relativeStart,
                             contextStart.val + segment.relativeEnd))

\* Array.findIndex(f => f === feature), 1-based; 0 when there is none
RECURSIVE FindIndexFrom(_, _, _)
FindIndexFrom(fs, feature, i) ==
    IF i > Len(fs) THEN 0
    ELSE IF fs[i].id = feature.id THEN i
    ELSE FindIndexFrom(fs, feature, i + 1)

\* The conversion that forgets the offset inside a gap
toGaplessIgnoringOwnGap(nc, base) ==
    LET featureCoordinate == convertBaseToFeatureCoordinate(nc, base)
    IN  IF featureCoordinate.err # "" THEN featureCoordinate
        ELSE LET featureIndex == FindIndexFrom(nc.features, featureCoordinate.val.feature, 1)
                 gapFeaturesBefore == SelectSeq(SubSeq(nc.features, 1, featureIndex - 1),
                                                isGapFeature)
                 sumBefore == SumSeq([i \in 1..Len(gapFeaturesBefore) |->
                                         FeatureLength(gapFeaturesBefore[i])])
             IN  Ok(base - sumBefore)

toGaplessCoordinate(nc, base) ==
    LET featureCoordinate == convertBaseToFeatureCoordinate(nc, base)
    IN  IF featureCoordinate.err # "" THEN featureCoordinate
        ELSE LET featureIndex == FindIndexFrom(nc.features, featureCoordinate.val.feature, 1)
                 gapFeaturesBefore == SelectSeq(SubSeq(nc.features, 1, featureIndex - 1),
                                                isGapFeature)
                 sumBefore == SumSeq([i \in 1..Len(gapFeaturesBefore) |->
                                         FeatureLength(gapFeaturesBefore[i])])
                 gapBasesBefore == IF isGapFeature(featureCoordinate.val.feature)
                                   THEN sumBefore + featureCoordinate.val.relativeStart
                                   ELSE sumBefore
             IN  Ok(base - gapBasesBefore)

\* this._featuresForChr[chr] || []
PotentialOverlaps(nc, chr) ==
    IF chr \in DOMAIN nc.featuresForChr THEN nc.featuresForChr[chr] ELSE <<>>

\* The loop of convertGenomeIntervalToBases from candidate i on
RECURSIVE GenomeLoop(_, _, _, _, _)
GenomeLoop(nc, potentialOverlaps, chrInterval, i, contextIntervals) ==
    IF i > Len(potentialOverlaps) THEN Ok(contextIntervals)
    ELSE LET overlap == SegmentGenomeOverlap(WholeSegment(potentialOverlaps[i]), chrInterval)
         IN  IF overlap = <<>>
             THEN GenomeLoop(nc, potentialOverlaps, chrInterval, i + 1, contextIntervals)
             ELSE LET c == convertFeatureSegmentToContextCoordinates(nc, overlap[1])
                  IN  IF c.err # "" THEN c
                      ELSE GenomeLoop(nc, potentialOverlaps, chrInterval, i + 1,
                                      Append(contextIntervals, c.val))

\* The lookup that emits the whole span of every feature the locus touches
convertGenomeUnclipped(nc, chrInterval) ==
    LET hit == SelectSeq(PotentialOverlaps(nc, chrInterval.chr),
                         LAMBDA f : SegmentGenomeOverlap(WholeSegment(f), chrInterval) # <<>>)
    IN  Ok([k \in 1..Len(hit) |->
              convertFeatureSegmentToContextCoordinates(nc, WholeSegment(hit[k])).val])

convertGenomeIntervalToBases(nc, chrInterval) ==
    GenomeLoop(nc, PotentialOverlaps(nc, chrInterval.chr), chrInterval, 1, <<>>)

\* parse taking the last context interval of the locus, not the first
parseLastInterval(nc, str) ==
    IF MatchesLocusPattern(str)
    THEN LET locus == ChromosomeIntervalParse(str)
         IN  IF locus.err # "" THEN locus
             ELSE LET found == convertGenomeIntervalToBases(nc, locus.val)
                  IN  IF found.err # "" THEN found
                      ELSE IF found.val = <<>> THEN Throw("RangeError")
                      ELSE Ok(found.val[Len(found.val)])
    ELSE LET named == {i \in 1..Len(nc.features) : nc.features[i].name = str}
         IN  IF named = {} THEN Throw("RangeError")
             ELSE convertFeatureSegmentToContextCoordinates(nc,
                      WholeSegment(nc.features[CHOOSE i \in named : \A j \in named : i <= j]))

\* this._features.find(feature => feature.getName() === str): <<>> is undefined
FindByName(fs, str) ==
    LET named == {i \in 1..Len(fs) : fs[i].name = str}
    IN  IF named = {} THEN <<>> ELSE <<fs[CHOOSE i \in named : \A j \in named : i <= j]>>

parse(nc, str) ==
    IF MatchesLocusPattern(str)
    THEN LET locus == ChromosomeIntervalParse(str)
         IN  IF locus.err # "" THEN locus
             ELSE LET found == convertGenomeIntervalToBases(nc, locus.val)
                  IN  IF found.err # "" THEN found
                      ELSE IF found.val = <<>> THEN Throw("RangeError")
                      ELSE Ok(found.val[1])
    ELSE LET feature == FindByName(nc.features, str)
         IN  IF feature = <<>> THEN Throw("RangeError")
             ELSE convertFeatureSegmentToContextCoordinates(nc, WholeSegment(feature[1]))

\* The loop of getFeaturesInInterval from feature i on
RECURSIVE FeaturesInIntervalLoop(_, _, _, _, _)
FeaturesInIntervalLoop(nc, queryInterval, includeGaps, i, results) ==
    IF i > Len(nc.features) THEN results
    ELSE LET feature == nc.features[i]
         IN  IF ~includeGaps /\ isGapFeature(feature)
             THEN FeaturesInIntervalLoop(nc, queryInterval, includeGaps, i + 1, results)
             ELSE LET start == getFeatureStart(nc, feature).val
                      end == start + FeatureLength(feature)
                      overlap == IntervalOverlap(OpenInterval(start, end), queryInterval)
                  IN  IF overlap # <<>>
                      THEN FeaturesInIntervalLoop(nc, queryInterval, includeGaps, i + 1,
                               Append(results, FeatureSegment(feature,
                                                              overlap[1].start - start,
                                                              overlap[1].end - start)))
                      ELSE IF Len(results) > 0 THEN results
                      ELSE FeaturesInIntervalLoop(nc, queryInterval, includeGaps, i + 1, results)

getFeaturesInInterval(nc, queryStart, queryEnd, includeGaps) ==
    FeaturesInIntervalLoop(nc, OpenInterval(queryStart, queryEnd), includeGaps, 1, <<>>)

getLociInInterval(nc, queryStart, queryEnd) ==
    LET featureSegments == getFeaturesInInterval(nc, queryStart, queryEnd, FALSE)
        loci == [k \in 1..Len(featureSegments) |-> SegmentLocus(featureSegments[k])]
    IN  mergeOverlaps(loci)

----------------------------------------------------------------------------
(* The contexts of specification SpecCtx: features of every length, gap or not *)

FeatureName(id) == <<"f", DigitChars[id + 1]>>

CtxFeature(isGap, len) ==
    IF isGap THEN makeGap(2 * len + 2, len, FeatureName(2 * len + 2))
    ELSE Feature(2 * len + 1, FeatureName(2 * len + 1), ChromosomeInterval(Chr1, 1, 1 + len))

PoolCtx == {CtxFeature(isGap, len) : isGap \in BOOLEAN, len \in 0..MaxLen}

\* A feature that is part of no context
Stranger == Feature(0, <<"z">>, ChromosomeInterval(Chr1, 0, 1))

NoCall == [op |-> "", base |-> 0]

NoArranger == [numRows |-> 0]

InitRest ==
    /\ pc = "new"
    /\ navContext = EmptyContext(<<>>)
    /\ call = NoCall
    /\ err = ""
    /\ ret = <<>>
    /\ arranger = NoArranger
    /\ intervals = <<>>
    /\ given = <<>>

InitCtx ==
    /\ features \in SeqsUpTo(PoolCtx, MaxFeatures)
    /\ InitRest

----------------------------------------------------------------------------
(* Actions *)

\* new NavigationContext(name, features)
Construct ==
    /\ pc = "new"
    /\ LET r == NewNavigationContext(features)
       IN  /\ pc' = IF r.err = "" THEN "built" ELSE "threw"
           /\ navContext' = IF r.err = "" THEN r.val ELSE navContext
           /\ err' = r.err
    /\ call' = [op |-> "constructor", base |-> 0]
    /\ UNCHANGED <<features, ret, arranger, intervals, given>>

Returns(r) ==
    /\ pc' = "returned"
    /\ err' = r.err
    /\ ret' = IF r.err = "" THEN <<r.val>> ELSE <<>>
    /\ UNCHANGED <<features, navContext, arranger, intervals, given>>

GetFeatureStart ==
    /\ pc = "built"
    /\ \E feature \in Range(features) \cup {Stranger} :
          /\ call' = [op |-> "getFeatureStart", feature |-> feature]
          /\ Returns(getFeatureStart(navContext, feature))

ConvertBaseToFeatureCoordinate ==
    /\ pc = "built"
    /\ \E base \in -1..navContext.totalBases :
          /\ call' = [op |-> "convertBaseToFeatureCoordinate", base |-> base]
          /\ Returns(convertBaseToFeatureCoordinate(navContext, base))

\* The caller hands the segment it got for a base back to the context
ConvertFeatureSegmentToContextCoordinates ==
    /\ pc = "returned"
    /\ call.op = "convertBaseToFeatureCoordinate"
    /\ err = ""
    /\ call' = [op |-> "convertFeatureSegmentToContextCoordinates",
                base |-> call.base, segment |-> ret[1]]
    /\ Returns(convertFeatureSegmentToContextCoordinates(navContext, ret[1]))

ToGaplessCoordinate ==
    /\ pc = "built"
    /\ \E base \in -1..navContext.totalBases :
          /\ call' = [op |-> "toGaplessCoordinate", base |-> base]
          /\ Returns(toGaplessCoordinate(navContext, base))

\* Any query interval of the context, empty ones included
GetFeaturesInInterval ==
    /\ pc = "built"
    /\ \E queryStart \in 0..navContext.totalBases, includeGaps \in BOOLEAN :
          \E queryEnd \in queryStart..navContext.totalBases :
             /\ call' = [op |-> "getFeaturesInInterval", queryStart |-> queryStart,
                         queryEnd |-> queryEnd, includeGaps |-> includeGaps]
             /\ Returns(Ok(getFeaturesInInterval(navContext, queryStart, queryEnd,
                                                 includeGaps)))

NextCtx ==
    \/ Construct
    \/ GetFeatureStart
    \/ ConvertBaseToFeatureCoordinate
    \/ ConvertFeatureSegmentToContextCoordinates
    \/ ToGaplessCoordinate
    \/ GetFeaturesInInterval

SpecCtx == InitCtx /\ [][NextCtx]_vars

----------------------------------------------------------------------------
(* The contexts of specification SpecLocus: features on two chromosomes,     *)
(* some over the same genomic bases, some empty, and a gap                   *)

LocusFeature(start, len) ==
    Feature(1 + start + 2 * len, FeatureName(1 + start + 2 * len),
            ChromosomeInterval(Chr1, start, start + len))

PoolLocus ==
    {LocusFeature(start, len) : start \in 0..1, len \in 0..MaxLen}
       \cup {Feature(0, FeatureName(0), ChromosomeInterval(Chr2, 0, 1)),
             makeGap(9, 1, <<"G">>)}

InitLocus ==
    /\ features \in SeqsUpTo(PoolLocus, MaxFeatures)
    /\ InitRest

\* The loci a caller asks about
QueryLoci ==
    {ChromosomeInterval(Chr1, s, e) : s \in 0..(MaxLen + 1), e \in 1..(MaxLen + 1)}
       \cup {ChromosomeInterval(chr, 0, 1) : chr \in {Chr2, GAP_CHR, <<"c", "3">>}}

ConvertGenomeIntervalToBases ==
    /\ pc = "built"
    /\ \E chrInterval \in {q \in QueryLoci : q.start <= q.end} :
          /\ call' = [op |-> "convertGenomeIntervalToBases", locus |-> chrInterval]
          /\ Returns(convertGenomeIntervalToBases(navContext, chrInterval))

GetLociInInterval ==
    /\ pc = "built"
    /\ \E queryStart \in 0..navContext.totalBases :
          \E queryEnd \in queryStart..navContext.totalBases :
             /\ call' = [op |-> "getLociInInterval",
                         queryStart |-> queryStart, queryEnd |-> queryEnd]
             /\ Returns(Ok(getLociInInterval(navContext, queryStart, queryEnd)))

NextLocus ==
    \/ Construct
    \/ ConvertGenomeIntervalToBases
    \/ GetLociInInterval

SpecLocus == InitLocus /\ [][NextLocus]_vars

----------------------------------------------------------------------------
(* The contexts of specification SpecNames: features that may share a name   *)

Names == {<<"a">>, <<"b">>}

NamedLoci ==
    <<ChromosomeInterval(Chr1, 0, 2), ChromosomeInterval(Chr1, 1, 3),
      ChromosomeInterval(Chr2, 0, 1)>>

NameRank(name) == IF name = <<"a">> THEN 0 ELSE 1

PoolNames ==
    {Feature(1 + NameRank(name) + 2 * (k - 1), name, NamedLoci[k]) :
        name \in Names, k \in 1..Len(NamedLoci)}

InitNames ==
    /\ features \in SeqsUpTo(PoolNames, MaxFeatures)
    /\ InitRest

LocusText(chr, start, end) ==
    chr \o <<":">> \o DecimalText(start) \o <<"-">> \o DecimalText(end)

\* The texts a caller hands to parse: locus texts, names, and malformed texts
ParseTexts ==
    {LocusText(chr, se[1], se[2]) :
        chr \in {Chr1, Chr2, <<"c", "3">>},
        se \in {<<0, 2>>, <<1, 2>>, <<1, 1>>, <<2, 1>>, <<3, 10>>}}
       \cup Names
       \cup {<<>>, <<"z">>, <<"c", "1">>, <<"c", "1", ":", "0">>, <<"c", "1", ":", "0", "-">>,
             <<":", "0", "-", "2">>, <<"a", " ">>}

Parse ==
    /\ pc = "built"
    /\ \E str \in ParseTexts :
          /\ call' = [op |-> "parse", str |-> str]
          /\ Returns(parse(navContext, str))

NextNames ==
    \/ Construct
    \/ Parse

SpecNames == InitNames /\ [][NextNames]_vars

----------------------------------------------------------------------------
(* IntervalArranger *)

\* LinearDrawingModel.baseToX: a linear map from bases to pixels
baseToX(drawModel, base) == (base - drawModel.viewStart) * drawModel.pixelsPerBase

\* The getPadding functions an arranger is configured with; "zero" is the default
PaddingKinds == {"zero", "length"}

getPadding(kind, interval) ==
    IF kind = "zero" THEN 0 ELSE IntervalLength(interval)

\* A comparator that breaks ties on the start by putting the shorter first
CompareShorterFirst(interval1, interval2) ==
    LET startComparison == interval1.start - interval2.start
    IN  IF startComparison = 0
        THEN IntervalLength(interval1) - IntervalLength(interval2)
        ELSE startComparison

\* The comparator of _sortIntervals: negative when interval1 sorts first
CompareIntervals(interval1, interval2) ==
    LET startComparison == interval1.start - interval2.start
    IN  IF startComparison = 0
        THEN IntervalLength(interval2) - IntervalLength(interval1)
        ELSE startComparison

\* Array.sort is stable (ECMAScript 2019): x goes before the first element
\* that compares greater than it
InsertSorted(sorted, x) ==
    LET after == {k \in 1..Len(sorted) : CompareIntervals(sorted[k], x) > 0}
        at == IF after = {} THEN Len(sorted) + 1
              ELSE CHOOSE k \in after : \A q \in after : k <= q
    IN  SubSeq(sorted, 1, at - 1) \o <<x>> \o SubSeq(sorted, at, Len(sorted))

RECURSIVE SortFrom(_, _, _)
SortFrom(array, i, sorted) ==
    IF i > Len(array) THEN sorted
    ELSE SortFrom(array, i + 1, InsertSorted(sorted, array[i]))

\* _sortIntervals: the array in its sorted order; arrange stores it back into
\* the array it was given, as Array.sort sorts in place
sortIntervals(array) == SortFrom(array, 1, <<>>)

\* -Infinity is <<>>, a pixel coordinate x is <<x>>
NegInfinity == <<>>

\* findIndex with a row that ends where the interval starts taken as free
FindRowTouching(maxXsForRows, startX) ==
    LET free == {r \in 1..Len(maxXsForRows) :
                    maxXsForRows[r] = NegInfinity \/ maxXsForRows[r][1] <= startX}
    IN  IF free = {} THEN -1 ELSE (CHOOSE r \in free : \A q \in free : r <= q) - 1

\* maxXsForRows.findIndex(maxX => maxX < startX): 0-based, -1 when there is none
FindRow(maxXsForRows, startX) ==
    LET free == {r \in 1..Len(maxXsForRows) :
                    maxXsForRows[r] = NegInfinity \/ maxXsForRows[r][1] < startX}
    IN  IF free = {} THEN -1 ELSE (CHOOSE r \in free : \A q \in free : r <= q) - 1

\* The loop of arrange from sorted interval i on
RECURSIVE ArrangeLoop(_, _, _, _, _)
ArrangeLoop(arr, sortedIntervals, i, maxXsForRows, rowIndices) ==
    IF i > Len(sortedIntervals) THEN rowIndices
    ELSE LET interval == sortedIntervals[i]
             horizontalPadding == getPadding(arr.getPadding, interval)
             startX == baseToX(arr.drawModel, interval.start) - horizontalPadding
             row == FindRow(maxXsForRows, startX)
             endX == baseToX(arr.drawModel, interval.end)
         IN  ArrangeLoop(arr, sortedIntervals, i + 1,
                         IF row # -1
                         THEN [maxXsForRows EXCEPT ![row + 1] = <<endX + horizontalPadding>>]
                         ELSE maxXsForRows,
                         Append(rowIndices, row))

\* The rows arrange returns once the array is sorted
ArrangeSorted(arr, sortedIntervals) ==
    ArrangeLoop(arr, sortedIntervals, 1, [r \in 1..arr.numRows |-> NegInfinity], <<>>)

\* The intervals handed to arrange: objects with an identity, start <= end
IntervalObject(id, start, end) == [id |-> id, start |-> start, end |-> end]

IntervalLists ==
    UNION {{[i \in 1..n |-> IntervalObject(i, se[i][1], se[i][2])] :
               se \in [1..n -> {c \in (0..MaxCoord) \X (0..MaxCoord) : c[1] <= c[2]}]} :
           n \in 0..MaxIntervals}

DrawModels == {[viewStart |-> 0, pixelsPerBase |-> 1], [viewStart |-> 1, pixelsPerBase |-> 2]}

InitArr ==
    /\ pc = "configured"
    /\ arranger \in [drawModel : DrawModels, numRows : 0..MaxRows, getPadding : PaddingKinds]
    /\ intervals \in IntervalLists
    /\ given = intervals
    /\ features = <<>>
    /\ navContext = EmptyContext(<<>>)
    /\ call = NoCall
    /\ err = ""
    /\ ret = <<>>

\* arranger.arrange(intervals)
Arrange ==
    /\ pc = "configured"
    /\ pc' = "arranged"
    /\ call' = [op |-> "arrange"]
    /\ IF arranger.numRows <= 0
       THEN /\ ret' = <<[i \in 1..Len(intervals) |-> -1]>>
            /\ intervals' = intervals
       ELSE LET sortedIntervals == sortIntervals(intervals)
            IN  /\ intervals' = sortedIntervals
                /\ ret' = <<ArrangeSorted(arranger, sortedIntervals)>>
    /\ UNCHANGED <<features, navContext, err, arranger, given>>

NextArr == Arrange

SpecArr == InitArr /\ [][NextArr]_vars

----------------------------------------------------------------------------
(* FeaturePlacer, and the view region and drawing model it is handed *)

\* Feature.getLocus
getLocus(feature) == ChromosomeInterval(feature.chr, feature.start, feature.end)

\* Feature.computeNavContextCoordinates: every context interval the feature maps to
computeNavContextCoordinates(feature, navContext_) ==
    convertGenomeIntervalToBases(navContext_, getLocus(feature))

\* new DisplayedRegionModel(navContext, start, end): a view of [start, end)
DisplayedRegionModel(navContext_, start, end) ==
    [navContext |-> navContext_, start |-> start, end |-> end]

\* DisplayedRegionModel.getContextCoordinates
getContextCoordinates(viewRegion) == OpenInterval(viewRegion.start, viewRegion.end)

\* DisplayedRegionModel.getNavigationContext
getNavigationContext(viewRegion) == viewRegion.navContext

\* new LinearDrawingModel(viewRegion, width): width pixels for the view's bases
LinearDrawingModel(viewRegion, width) ==
    [viewStart |-> viewRegion.start,
     pixelsPerBase |-> width \div (viewRegion.end - viewRegion.start)]

\* LinearDrawingModel.baseSpanToXSpan
baseSpanToXSpan(drawModel, baseInterval) ==
    OpenInterval(baseToX(drawModel, baseInterval.start),
                 baseToX(drawModel, baseInterval.end))

\* new GenomeInteraction(locus1, locus2)
GenomeInteraction(id, locus1, locus2) == [id |-> id, locus1 |-> locus1, locus2 |-> locus2]

\* The visible part taken from the start of the feature
getVisibleSegmentFromStart(feature, navContext_, contextLocation) ==
    Ok(FeatureSegment(feature, 0, IntervalLength(contextLocation)))

\* FeaturePlacer._getVisibleSegment
getVisibleSegment(feature, navContext_, contextLocation) ==
    LET placed == convertBaseToFeatureCoordinate(navContext_, contextLocation.start)
    IN  IF placed.err # "" THEN placed
        ELSE LET placedLocus == SegmentLocus(placed.val)
                 distFromFeatureLocus == placedLocus.start - getLocus(feature).start
                 relativeStart == Max(0, distFromFeatureLocus)
             IN  Ok(FeatureSegment(feature, relativeStart,
                                   relativeStart + IntervalLength(contextLocation)))

\* The placement of a context interval that is not clipped to the view
PlaceLocationUnclipped(feature, navContext_, drawModel, viewRegionBounds, location) ==
    LET xSpan == baseSpanToXSpan(drawModel, location)
        visiblePart == getVisibleSegment(feature, navContext_, location)
    IN  IF visiblePart.err # "" THEN visiblePart
        ELSE Ok(<<[feature |-> feature, visiblePart |-> visiblePart.val,
                   contextLocation |-> location, xSpan |-> xSpan]>>)

\* The body of placeFeatures' inner loop: the placements one context interval
\* of the feature adds, none when it lies outside the view
PlaceLocation(feature, navContext_, drawModel, viewRegionBounds, location) ==
    LET contextLocation == IntervalOverlap(location, viewRegionBounds)
    IN  IF contextLocation = <<>> THEN Ok(<<>>)
        ELSE LET xSpan == baseSpanToXSpan(drawModel, contextLocation[1])
                 visiblePart == getVisibleSegment(feature, navContext_, contextLocation[1])
             IN  IF visiblePart.err # "" THEN visiblePart
                 ELSE Ok(<<[feature |-> feature, visiblePart |-> visiblePart.val,
                            contextLocation |-> contextLocation[1], xSpan |-> xSpan]>>)

\* placeFeatures' inner loop from context interval j of the feature on
RECURSIVE PlaceLocationsLoop(_, _, _, _, _, _, _)
PlaceLocationsLoop(feature, navContext_, drawModel, viewRegionBounds, locations, j, placements) ==
    IF j > Len(locations) THEN Ok(placements)
    ELSE LET placed == PlaceLocation(feature, navContext_, drawModel, viewRegionBounds,
                                     locations[j])
         IN  IF placed.err # "" THEN placed
             ELSE PlaceLocationsLoop(feature, navContext_, drawModel, viewRegionBounds,
                                     locations, j + 1, placements \o placed.val)

\* placeFeatures' outer loop from feature i on
RECURSIVE PlaceFeaturesLoop(_, _, _, _, _, _)
PlaceFeaturesLoop(fs, navContext_, drawModel, viewRegionBounds, i, placements) ==
    IF i > Len(fs) THEN Ok(placements)
    ELSE LET locations == computeNavContextCoordinates(fs[i], navContext_)
         IN  IF locations.err # "" THEN locations
             ELSE LET placed == PlaceLocationsLoop(fs[i], navContext_, drawModel,
                                                   viewRegionBounds, locations.val, 1,
                                                   placements)
                  IN  IF placed.err # "" THEN placed
                      ELSE PlaceFeaturesLoop(fs, navContext_, drawModel, viewRegionBounds,
                                             i + 1, placed.val)

placeFeatures(fs, viewRegion, width) ==
    LET drawModel == LinearDrawingModel(viewRegion, width)
        viewRegionBounds == getContextCoordinates(viewRegion)
        navContext_ == getNavigationContext(viewRegion)
    IN  PlaceFeaturesLoop(fs, navContext_, drawModel, viewRegionBounds, 1, <<>>)

\* A placed interaction that keeps the spans in the order they were given
PlacedInteractionAsGiven(interaction, xSpan1, xSpan2) ==
    [interaction |-> interaction, xSpan1 |-> xSpan1, xSpan2 |-> xSpan2]

\* new PlacedInteraction(interaction, xSpan1, xSpan2)
PlacedInteraction(interaction, xSpan1, xSpan2) ==
    IF xSpan1.start <= xSpan2.start
    THEN [interaction |-> interaction, xSpan1 |-> xSpan1, xSpan2 |-> xSpan2]
    ELSE [interaction |-> interaction, xSpan1 |-> xSpan2, xSpan2 |-> xSpan1]

\* locations.map(location => location.getOverlap(viewRegionBounds)): <<>> is null
ClipAll(locations, viewRegionBounds) ==
    [k \in 1..Len(locations) |-> IntervalOverlap(locations[k], viewRegionBounds)]

\* placeInteractions' two inner loops, in row-major order k = (k1 - 1) * n2 + k2
RECURSIVE PairsLoop(_, _, _, _, _, _)
PairsLoop(interaction, drawModel, contextLocations1, contextLocations2, k, mapped) ==
    IF k > Len(contextLocations1) * Len(contextLocations2) THEN mapped
    ELSE LET location1 == contextLocations1[((k - 1) \div Len(contextLocations2)) + 1]
             location2 == contextLocations2[((k - 1) % Len(contextLocations2)) + 1]
         IN  PairsLoop(interaction, drawModel, contextLocations1, contextLocations2, k + 1,
                       IF location1 # <<>> /\ location2 # <<>>
                       THEN Append(mapped,
                                   PlacedInteraction(interaction,
                                                     baseSpanToXSpan(drawModel, location1[1]),
                                                     baseSpanToXSpan(drawModel, location2[1])))
                       ELSE mapped)

\* placeInteractions' outer loop from interaction i on
RECURSIVE PlaceInteractionsLoop(_, _, _, _, _, _)
PlaceInteractionsLoop(interactions, navContext_, drawModel, viewRegionBounds, i, mapped) ==
    IF i > Len(interactions) THEN Ok(mapped)
    ELSE LET found1 == convertGenomeIntervalToBases(navContext_, interactions[i].locus1)
             found2 == convertGenomeIntervalToBases(navContext_, interactions[i].locus2)
         IN  IF found1.err # "" THEN found1
             ELSE IF found2.err # "" THEN found2
             ELSE PlaceInteractionsLoop(interactions, navContext_, drawModel,
                                        viewRegionBounds, i + 1,
                                        PairsLoop(interactions[i], drawModel,
                                                  ClipAll(found1.val, viewRegionBounds),
                                                  ClipAll(found2.val, viewRegionBounds),
                                                  1, mapped))

placeInteractions(interactions, viewRegion, width) ==
    LET drawModel == LinearDrawingModel(viewRegion, width)
        viewRegionBounds == getContextCoordinates(viewRegion)
        navContext_ == getNavigationContext(viewRegion)
    IN  PlaceInteractionsLoop(interactions, navContext_, drawModel, viewRegionBounds,
                              1, <<>>)

----------------------------------------------------------------------------
(* The contexts of specification SpecPlace: two features over shared bases   *)
(* of one chromosome, an empty feature and a feature of another chromosome   *)

PoolPlace ==
    {Feature(1, FeatureName(1), ChromosomeInterval(Chr1, 0, MaxLen)),
     Feature(2, FeatureName(2), ChromosomeInterval(Chr1, 1, 1 + MaxLen)),
     Feature(3, FeatureName(3), ChromosomeInterval(Chr1, 1, 1)),
     Feature(4, FeatureName(4), ChromosomeInterval(Chr2, 0, 1))}

InitPlace ==
    /\ features \in SeqsUpTo(PoolPlace, MaxFeatures)
    /\ InitRest

\* The loci of the features a caller places
PlacedLoci ==
    {ChromosomeInterval(Chr1, s, e) : s \in 0..1, e \in 2..(MaxLen + 1)}
       \cup {ChromosomeInterval(Chr1, 0, 1), ChromosomeInterval(Chr2, 0, 1)}

\* The features a caller places: one object per locus, none part of the context
PlacedFeatures == {Feature(<<"placed", l>>, <<"p">>, l) : l \in PlacedLoci}

InteractionLoci ==
    {ChromosomeInterval(Chr1, 0, 1), ChromosomeInterval(Chr1, 1, MaxLen + 1),
     ChromosomeInterval(Chr2, 0, 1)}

Interactions ==
    {GenomeInteraction(<<l1, l2>>, l1, l2) : l1 \in InteractionLoci, l2 \in InteractionLoci}

\* The widths for which the drawing model has a whole number of pixels per base
Widths(viewStart, viewEnd) == {k * (viewEnd - viewStart) : k \in 1..MaxPixelsPerBase}

\* placer.placeFeatures(features, viewRegion, width), for a non-empty view
PlaceFeatures ==
    /\ pc = "built"
    /\ \E viewStart \in 0..navContext.totalBases, fs \in SeqsUpTo(PlacedFeatures, MaxPlaced) :
          \E viewEnd \in (viewStart + 1)..navContext.totalBases :
             \E width \in Widths(viewStart, viewEnd) :
                /\ call' = [op |-> "placeFeatures", features |-> fs,
                            viewStart |-> viewStart, viewEnd |-> viewEnd, width |-> width]
                /\ Returns(placeFeatures(fs,
                               DisplayedRegionModel(navContext, viewStart, viewEnd), width))

\* placer.placeInteractions(interactions, viewRegion, width), for a non-empty view
PlaceInteractions ==
    /\ pc = "built"
    /\ \E viewStart \in 0..navContext.totalBases,
          interactions \in SeqsUpTo(Interactions, MaxPlaced) :
          \E viewEnd \in (viewStart + 1)..navContext.totalBases :
             \E width \in Widths(viewStart, viewEnd) :
                /\ call' = [op |-> "placeInteractions", interactions |-> interactions,
                            viewStart |-> viewStart, viewEnd |-> viewEnd, width |-> width]
                /\ Returns(placeInteractions(interactions,
                               DisplayedRegionModel(navContext, viewStart, viewEnd), width))

NextPlace ==
    \/ Construct
    \/ PlaceFeatures
    \/ PlaceInteractions

SpecPlace == InitPlace /\ [][NextPlace]_vars

----------------------------------------------------------------------------
(* What the claims are stated against: the context coordinates of a feature  *)
(* list, computed from the lengths alone                                      *)

\* The summed length of the first n features of fs
RECURSIVE LengthOfFirst(_, _)
LengthOfFirst(fs, n) == IF n = 0 THEN 0 ELSE LengthOfFirst(fs, n - 1) + FeatureLength(fs[n])

\* Position i of fs spans the context coordinates [SpanStart, SpanEnd)
SpanStart(fs, i) == LengthOfFirst(fs, i - 1)

SpanEnd(fs, i) == LengthOfFirst(fs, i)

ValidBase(fs, b) == 0 <= b /\ b < LengthOfFirst(fs, Len(fs))

InsideGap(fs, c) ==
    \E i \in 1..Len(fs) : isGapFeature(fs[i]) /\ SpanStart(fs, i) <= c /\ c < SpanEnd(fs, i)

Returned(op) == pc = "returned" /\ call.op = op

----------------------------------------------------------------------------
(* C5: for every valid base b, converting b to a feature coordinate succeeds *)
(* and converting that segment back to context coordinates yields a          *)
(* zero-length interval whose start is b.                                    *)
C5_RoundTrip ==
    /\ (Returned("convertBaseToFeatureCoordinate") /\ ValidBase(features, call.base))
          => err = ""
    /\ Returned("convertFeatureSegmentToContextCoordinates")
          => /\ err = ""
             /\ ret[1].start = call.base
             /\ ret[1].end = ret[1].start

\* A round trip of a base that lies inside the third feature of a context
C5_Witness ==
    /\ Returned("convertFeatureSegmentToContextCoordinates")
    /\ Len(features) = 3
    /\ call.segment.feature = features[3]
    /\ call.segment.relativeStart > 0
    /\ ret[1].start = call.base

(* C6: getFeatureStart(Fi) is the summed length of the features before Fi,   *)
(* getTotalBases() is the summed length of all features, and the recorded    *)
(* start offsets are non-decreasing in feature order.                        *)
C6_OffsetLaw ==
    /\ pc \in {"built", "returned"}
          => /\ getTotalBases(navContext) = LengthOfFirst(features, Len(features))
             /\ Len(navContext.sortedFeatureStarts) = Len(features)
             /\ \A i, j \in 1..Len(features) :
                    i <= j => navContext.sortedFeatureStarts[i] <= navContext.sortedFeatureStarts[j]
    /\ Returned("getFeatureStart")
          => \A i \in 1..Len(features) :
                features[i] = call.feature
                   => err = "" /\ ret[1] = LengthOfFirst(features, i - 1)

\* getFeatureStart of a third feature that follows features of positive length
C6_Witness ==
    /\ Returned("getFeatureStart")
    /\ Len(features) = 3
    /\ call.feature = features[3]
    /\ FeatureLength(features[1]) > 0
    /\ FeatureLength(features[2]) > 0
    /\ ret[1] = FeatureLength(features[1]) + FeatureLength(features[2])

\* The context [10bp feature, 10bp gap, 10bp feature] of the documentation
GaplessExample ==
    NewNavigationContext(<<Feature(1, <<"a">>, ChromosomeInterval(Chr1, 0, 10)),
                           makeGap(2, 10, <<"G">>),
                           Feature(3, <<"b">>, ChromosomeInterval(Chr1, 10, 20))>>).val

(* C7: for every valid base b, toGaplessCoordinate(b) is b minus the number  *)
(* of context coordinates c < b inside a gap feature; it is non-decreasing   *)
(* in b; on [10bp feature, 10bp gap, 10bp feature] it maps 5 to 5, 15 to 10  *)
(* and 25 to 15.                                                             *)
C7_Gapless ==
    Returned("toGaplessCoordinate") =>
        /\ ValidBase(features, call.base) =>
              /\ err = ""
              /\ ret[1] = call.base
                             - Cardinality({c \in 0..(call.base - 1) : InsideGap(features, c)})
              /\ \A b \in 0..call.base :
                     toGaplessCoordinate(navContext, b).val <= ret[1]
        /\ toGaplessCoordinate(GaplessExample, 5) = Ok(5)
        /\ toGaplessCoordinate(GaplessExample, 15) = Ok(10)
        /\ toGaplessCoordinate(GaplessExample, 25) = Ok(15)

\* A base inside a gap that follows another gap and a feature
C7_Witness ==
    /\ Returned("toGaplessCoordinate")
    /\ err = ""
    /\ Len(features) = 3
    /\ isGapFeature(features[1]) /\ ~isGapFeature(features[2]) /\ isGapFeature(features[3])
    /\ call.base > SpanStart(features, 3)
    /\ ret[1] = FeatureLength(features[2])
    /\ ret[1] > 0

----------------------------------------------------------------------------
(* Claims about IntervalArranger.arrange, under SpecArr *)

Arranged == pc = "arranged"

\* The row the loop of arrange gave to the interval object with this identity:
\* the loop ran over the sorted array, which `intervals` holds after the call
RowGivenTo(id) ==
    LET k == CHOOSE k \in 1..Len(intervals) : intervals[k].id = id
    IN  ret[1][k]

PaddedStartX(interval) ==
    baseToX(arranger.drawModel, interval.start) - getPadding(arranger.getPadding, interval)

PaddedEndX(interval) ==
    baseToX(arranger.drawModel, interval.end) + getPadding(arranger.getPadding, interval)

(* C2: arrange returns the row indices in the original input order: for      *)
(* every position i, result[i] is the row assigned to the interval that      *)
(* stood at position i of the argument when arrange was called.              *)
C2_OriginalOrder ==
    Arranged =>
        /\ Len(ret[1]) = Len(given)
        /\ \A i \in 1..Len(given) : ret[1][i] = RowGivenTo(given[i].id)

(* C3: with numRows >= 1, arrange returns one index per interval, each -1 or *)
(* in 0..numRows-1, and two distinct intervals given the same row r >= 0     *)
(* do not overlap: x(end of the earlier) + its padding < x(start of the      *)
(* later) - its padding.                                                     *)
C3_NoOverlapInRow ==
    (Arranged /\ arranger.numRows >= 1) =>
        /\ Len(ret[1]) = Len(given)
        /\ \A k \in 1..Len(ret[1]) : ret[1][k] \in (-1)..(arranger.numRows - 1)
        /\ \A k, l \in 1..Len(intervals) :
              (k < l /\ ret[1][k] = ret[1][l] /\ ret[1][k] >= 0)
                 => PaddedEndX(intervals[k]) < PaddedStartX(intervals[l])

\* Three intervals on two rows: two share a row, one fits nowhere
C3_Witness ==
    /\ Arranged
    /\ arranger.numRows = 2
    /\ Len(intervals) = 3
    /\ \E k, l \in 1..3 : k < l /\ ret[1][k] = ret[1][l] /\ ret[1][k] >= 0
    /\ \E k \in 1..3 : ret[1][k] = 1

(* C4: arrange leaves its argument alone: after the call the caller's list   *)
(* holds the same intervals in the same order as before the call.            *)
C4_ArgumentUnchanged ==
    Arranged => intervals = given

----------------------------------------------------------------------------
(* Claims about the genomic lookups, under SpecLocus and SpecNames *)

\* The genomic bases feature i of fs shares with a locus: [ShareStart, ShareEnd)
ShareStart(fs, i, locus) == Max(fs[i].start, locus.start)

ShareEnd(fs, i, locus) == Min(fs[i].end, locus.end)

\* The positions of the features on the locus' chromosome that share a base
\* with it, in feature order
SharingPositions(fs, locus) ==
    SelectSeq([i \in 1..Len(fs) |-> i],
              LAMBDA i : fs[i].chr = locus.chr /\ ShareStart(fs, i, locus) < ShareEnd(fs, i, locus))

(* C1: constructing a NavigationContext from a feature list in which two     *)
(* features have the same name fails, also when the two are distinct         *)
(* objects; a list whose names all differ constructs successfully.           *)
C1_DuplicateNameFails ==
    call.op = "constructor" =>
        (pc = "threw" <=> \E i, j \in 1..Len(features) :
                             i < j /\ features[i].name = features[j].name)

(* C8: convertGenomeIntervalToBases(locus) returns, in feature order, one    *)
(* context interval for each feature on the locus' chromosome that shares a  *)
(* base with it, and nothing else; each interval lies inside that feature's  *)
(* context span and is as long as the shared part.                           *)
C8_GenomeToBases ==
    Returned("convertGenomeIntervalToBases") =>
        LET at == SharingPositions(features, call.locus)
        IN  /\ err = ""
            /\ Len(ret[1]) = Len(at)
            /\ \A k \in 1..Len(at) :
                  /\ SpanStart(features, at[k]) <= ret[1][k].start
                  /\ ret[1][k].end <= SpanEnd(features, at[k])
                  /\ IntervalLength(ret[1][k])
                        = ShareEnd(features, at[k], call.locus)
                            - ShareStart(features, at[k], call.locus)

\* A locus that two features share in part, with a feature it does not touch
\* between them
C8_Witness ==
    /\ Returned("convertGenomeIntervalToBases")
    /\ Len(features) = 3
    /\ features[2].chr # call.locus.chr
    /\ Len(ret[1]) = 2
    /\ IntervalLength(ret[1][1]) < FeatureLength(features[1])
    /\ ret[1][2].start > SpanStart(features, 3)

\* The genomic bases of the loci, as pairs <<chr, base>>
BasesOf(loci) ==
    UNION {{<<loci[k].chr, g>> : g \in loci[k].start..(loci[k].end - 1)} : k \in 1..Len(loci)}

\* The genomic bases of the non-gap features at the context coordinates
\* [queryStart, queryEnd)
NonGapBasesInside(fs, queryStart, queryEnd) ==
    UNION {{<<fs[i].chr, fs[i].start + (c - SpanStart(fs, i))>> :
               c \in Max(queryStart, SpanStart(fs, i))..(Min(queryEnd, SpanEnd(fs, i)) - 1)} :
           i \in {j \in 1..Len(fs) : ~isGapFeature(fs[j])}}

(* C9: getLociInInterval returns loci that are pairwise non-overlapping and  *)
(* non-touching on the same chromosome, none of them a gap locus, that       *)
(* together cover exactly the genomic bases of the non-gap features inside   *)
(* the query.                                                                *)
C9_LociCoverQuery ==
    Returned("getLociInInterval") =>
        /\ \A k, l \in 1..Len(ret[1]) :
              (k # l /\ ret[1][k].chr = ret[1][l].chr)
                 => (ret[1][k].end < ret[1][l].start \/ ret[1][l].end < ret[1][k].start)
        /\ \A k \in 1..Len(ret[1]) : ret[1][k].chr # GAP_CHR
        /\ BasesOf(ret[1]) = NonGapBasesInside(features, call.queryStart, call.queryEnd)

\* The context interval of the first feature that shares a base with the locus
FirstIntervalOf(fs, locus) ==
    LET i == SharingPositions(fs, locus)[1]
    IN  OpenInterval(SpanStart(fs, i) + (ShareStart(fs, i, locus) - fs[i].start),
                     SpanStart(fs, i) + (ShareEnd(fs, i, locus) - fs[i].start))

ChrTexts == {Chr1, Chr2, <<"c", "3">>}

----------------------------------------------------------------------------
\* The segments of the first n features of fs that the query overlaps, each
\* clipped to the query, in feature order
RECURSIVE OverlappingSegments(_, _, _, _)
OverlappingSegments(fs, queryInterval, includeGaps, n) ==
    IF n = 0 THEN <<>>
    ELSE LET before == OverlappingSegments(fs, queryInterval, includeGaps, n - 1)
             eligible == includeGaps \/ ~isGapFeature(fs[n])
             overlap == IntervalOverlap(OpenInterval(SpanStart(fs, n), SpanEnd(fs, n)),
                                        queryInterval)
         IN  IF eligible /\ overlap # <<>>
             THEN Append(before, FeatureSegment(fs[n],
                                                overlap[1].start - SpanStart(fs, n),
                                                overlap[1].end - SpanStart(fs, n)))
             ELSE before

(* C13: getFeaturesInInterval returns, in feature order, exactly one segment *)
(* clipped to the query for every eligible feature whose context span        *)
(* overlaps the query, and nothing else, in every context, those with        *)
(* zero-length features included.                                            *)
C13_EveryOverlapReturned ==
    Returned("getFeaturesInInterval") =>
        ret[1] = OverlappingSegments(features,
                                     OpenInterval(call.queryStart, call.queryEnd),
                                     call.includeGaps, Len(features))

(* C15: for every context, those with zero-length features and so repeated   *)
(* start offsets included, and every valid base b,                           *)
(* convertBaseToFeatureCoordinate(b) returns a feature f and an offset c     *)
(* with 0 <= c < length(f): f is the one feature whose context span holds b, *)
(* never a zero-length feature.                                              *)
C15_OwningFeature ==
    (Returned("convertBaseToFeatureCoordinate") /\ ValidBase(features, call.base)) =>
        /\ err = ""
        /\ 0 <= ret[1].relativeStart
        /\ ret[1].relativeStart < FeatureLength(ret[1].feature)
        /\ \A i \in 1..Len(features) :
              (SpanStart(features, i) <= call.base /\ call.base < SpanEnd(features, i))
                 <=> features[i] = ret[1].feature
        /\ \E i \in 1..Len(features) :
              /\ features[i] = ret[1].feature
              /\ ret[1].relativeStart = call.base - SpanStart(features, i)

\* The base is the start offset of two features: a zero-length one and the
\* feature after it, which is returned
C15_Witness ==
    /\ Returned("convertBaseToFeatureCoordinate")
    /\ err = ""
    /\ \E i \in 1..(Len(features) - 1) :
          /\ i > 1
          /\ FeatureLength(features[i]) = 0
          /\ SpanStart(features, i) = call.base
          /\ ret[1].feature = features[i + 1]
          /\ ret[1].relativeStart = 0

----------------------------------------------------------------------------
\* The occupied-to coordinate of a row when the interval at position k of the
\* processing order is handled: the padded pixel end of the latest earlier
\* interval given that row, -Infinity when there is none
OccupiedTo(order, rows, row, k) ==
    LET earlier == {j \in 1..(k - 1) : rows[j] = row}
    IN  IF earlier = {} THEN NegInfinity
        ELSE LET j == CHOOSE q \in earlier : \A p \in earlier : p <= q
             IN  <<PaddedEndX(order[j])>>

\* The row is free for an interval whose padded pixel start is startX
RowQualifies(order, rows, row, k) ==
    LET occupied == OccupiedTo(order, rows, row, k)
    IN  occupied = NegInfinity \/ occupied[1] < PaddedStartX(order[k])

\* The documented example: rows = 2, A = [0,10), B = [5,15), C = [12,20)
ArrangeExample ==
    LET arr == [drawModel |-> [viewStart |-> 0, pixelsPerBase |-> 1],
                numRows |-> 2, getPadding |-> "zero"]
        abc == <<IntervalObject(1, 0, 10), IntervalObject(2, 5, 15),
                 IntervalObject(3, 12, 20)>>
    IN  /\ sortIntervals(abc) = abc
        /\ ArrangeSorted(arr, sortIntervals(abc)) = <<0, 1, 0>>

(* C14: arrange is first-fit. Intervals are processed by ascending start,     *)
(* ties longer first; each gets the lowest-index row whose occupied-to       *)
(* coordinate is strictly less than its padded pixel start, and that row's   *)
(* occupied-to becomes its pixel end plus padding; an interval gets -1 only  *)
(* when no row qualifies, which is always so when numRows <= 0; intervals    *)
(* that merely touch are not put in the same row; the documented example     *)
(* gives rows 0, 1, 0.                                                       *)
C14_FirstFit ==
    /\ ArrangeExample
    /\ Arranged =>
          LET rows == ret[1]
              order == IF arranger.numRows <= 0 THEN given ELSE intervals
          IN  /\ Len(rows) = Len(given)
              /\ arranger.numRows > 0 =>
                    /\ Len(order) = Len(given)
                    /\ Range(order) = Range(given)
                    /\ \A k \in 1..(Len(order) - 1) :
                          \/ order[k].start < order[k + 1].start
                          \/ /\ order[k].start = order[k + 1].start
                             /\ IntervalLength(order[k]) >= IntervalLength(order[k + 1])
              /\ \A k \in 1..Len(order) :
                    /\ rows[k] \in -1..(arranger.numRows - 1)
                    /\ rows[k] # -1 =>
                          /\ RowQualifies(order, rows, rows[k], k)
                          /\ \A q \in 0..(rows[k] - 1) : ~RowQualifies(order, rows, q, k)
                    /\ rows[k] = -1 =>
                          \A q \in 0..(arranger.numRows - 1) : ~RowQualifies(order, rows, q, k)
              /\ \A k, l \in 1..Len(order) :
                    (k < l /\ PaddedEndX(order[k]) = PaddedStartX(order[l])
                       /\ rows[k] # -1)
                       => rows[k] # rows[l]

\* Three intervals on two rows: the third starts after the first one's end
\* and before the second one's, so it goes back to row 0; or it fits no row
C14_Witness ==
    /\ Arranged
    /\ arranger.numRows = 2
    /\ Len(ret[1]) = 3
    /\ ret[1][1] = 0
    /\ ret[1][2] = 1
    /\ ret[1][3] = 0
    /\ intervals # given

----------------------------------------------------------------------------
\* The position in fs of the feature whose context span holds the valid base b
OwnerOf(fs, b) ==
    CHOOSE i \in 1..Len(fs) : SpanStart(fs, i) <= b /\ b < SpanEnd(fs, i)

\* The genomic base the context holds at the valid base b
GenomeAt(fs, b) == fs[OwnerOf(fs, b)].start + (b - SpanStart(fs, OwnerOf(fs, b)))

\* Every base of the view is a genomic base of the locus
SpansView(locus, fs, viewStart, viewEnd) ==
    \A b \in viewStart..(viewEnd - 1) :
       /\ fs[OwnerOf(fs, b)].chr = locus.chr
       /\ locus.start <= GenomeAt(fs, b)
       /\ GenomeAt(fs, b) < locus.end

\* The view lies inside the context span of one feature
ViewInOneFeature(fs, viewStart, viewEnd) ==
    \E i \in 1..Len(fs) : SpanStart(fs, i) <= viewStart /\ viewEnd <= SpanEnd(fs, i)

\* Each time it is listed, the feature at position k of the call is placed
\* once, over the pixels [0, width)
PlacedOnceOverView(k) ==
    LET mine == {j \in 1..Len(ret[1]) : ret[1][j].feature = call.features[k]}
        listed == {q \in 1..Len(call.features) : call.features[q] = call.features[k]}
    IN  /\ Cardinality(mine) = Cardinality(listed)
        /\ \A j \in mine : ret[1][j].xSpan = OpenInterval(0, call.width)

(* C11: placeFeatures, for any navigation context and non-empty view region, *)
(* gives a feature whose locus spans the full view exactly one placement,    *)
(* and that placement's pixel span equals [0, width).                        *)
C11_SpanningFeatureOnce ==
    Returned("placeFeatures") =>
        /\ err = ""
        /\ \A k \in 1..Len(call.features) :
              SpansView(getLocus(call.features[k]), features, call.viewStart, call.viewEnd)
                 => PlacedOnceOverView(k)

(* C11, amended: when the view region is non-empty and lies inside the       *)
(* context span of one feature of the navigation context, a feature whose    *)
(* locus spans the full view gets exactly one placement, and that            *)
(* placement's pixel span equals [0, width).                                 *)
C11_SpanningFeatureOnceInOneFeature ==
    (Returned("placeFeatures")
        /\ ViewInOneFeature(features, call.viewStart, call.viewEnd)) =>
        /\ err = ""
        /\ \A k \in 1..Len(call.features) :
              SpansView(getLocus(call.features[k]), features, call.viewStart, call.viewEnd)
                 => PlacedOnceOverView(k)

\* A feature that maps to two context intervals, one of them over the whole
\* view and clipped to it, the other outside the view
C11_Witness ==
    /\ Returned("placeFeatures")
    /\ ViewInOneFeature(features, call.viewStart, call.viewEnd)
    /\ Len(call.features) = 1
    /\ SpansView(getLocus(call.features[1]), features, call.viewStart, call.viewEnd)
    /\ Len(computeNavContextCoordinates(call.features[1], navContext).val) = 2
    /\ call.viewStart > 0
    /\ call.width > call.viewEnd - call.viewStart
    /\ Len(ret[1]) = 1
    /\ ret[1][1].xSpan = OpenInterval(0, call.width)
    /\ IntervalLength(ret[1][1].contextLocation) < FeatureLength(call.features[1])

----------------------------------------------------------------------------
\* The genomic locus the context holds at the context interval, which lies
\* inside the span of one feature
LocusAt(fs, interval) ==
    ChromosomeInterval(fs[OwnerOf(fs, interval.start)].chr,
                       GenomeAt(fs, interval.start),
                       GenomeAt(fs, interval.start) + IntervalLength(interval))

(* C16: every placement placeFeatures returns has a non-empty contextLocation *)
(* inside the view region's context bounds, so a feature wholly outside the  *)
(* view gets no placement; its visiblePart is a valid segment of the feature *)
(* (0 <= relativeStart <= relativeEnd <= feature length), as long as         *)
(* contextLocation, whose genomic locus is the locus the context holds at    *)
(* contextLocation.                                                          *)
C16_PlacementInsideView ==
    Returned("placeFeatures") =>
        /\ err = ""
        /\ \A j \in 1..Len(ret[1]) :
              LET placement == ret[1][j]
                  visiblePart == placement.visiblePart
              IN  /\ placement.feature \in Range(call.features)
                  /\ visiblePart.feature = placement.feature
                  /\ placement.contextLocation.start < placement.contextLocation.end
                  /\ call.viewStart <= placement.contextLocation.start
                  /\ placement.contextLocation.end <= call.viewEnd
                  /\ 0 <= visiblePart.relativeStart
                  /\ visiblePart.relativeStart <= visiblePart.relativeEnd
                  /\ visiblePart.relativeEnd <= FeatureLength(placement.feature)
                  /\ visiblePart.relativeEnd - visiblePart.relativeStart
                        = IntervalLength(placement.contextLocation)
                  /\ \E i \in 1..Len(features) :
                        /\ SpanStart(features, i) <= placement.contextLocation.start
                        /\ placement.contextLocation.end <= SpanEnd(features, i)
                  /\ SegmentLocus(visiblePart) = LocusAt(features, placement.contextLocation)
        /\ \A k \in 1..Len(call.features) :
              (\A b \in call.viewStart..(call.viewEnd - 1) :
                  ~SpansView(getLocus(call.features[k]), features, b, b + 1))
                 => \A j \in 1..Len(ret[1]) : ret[1][j].feature # call.features[k]

\* A feature placed twice in one view, each time clipped by the view and shown
\* from inside the feature, behind an empty feature of the context
C16_Witness ==
    /\ Returned("placeFeatures")
    /\ Len(ret[1]) = 2
    /\ ret[1][1].feature = ret[1][2].feature
    /\ ret[1][1].visiblePart.relativeStart > 0
    /\ ret[1][2].visiblePart.relativeEnd < FeatureLength(ret[1][2].feature)
    /\ ret[1][1].contextLocation.start = call.viewStart
    /\ ret[1][2].contextLocation.end = call.viewEnd
    /\ \E i \in 1..Len(features) :
          /\ FeatureLength(features[i]) = 0
          /\ SpanStart(features, i) = ret[1][2].contextLocation.start

----------------------------------------------------------------------------
\* The context intervals of a locus that overlap the view, clipped to it, in
\* feature order
VisibleIntervals(fs, locus, viewStart, viewEnd) ==
    LET at == SharingPositions(fs, locus)
        whole == [k \in 1..Len(at) |->
                     OpenInterval(SpanStart(fs, at[k]) + (ShareStart(fs, at[k], locus)
                                                            - fs[at[k]].start),
                                  SpanStart(fs, at[k]) + (ShareEnd(fs, at[k], locus)
                                                            - fs[at[k]].start))]
        seen == SelectSeq(whole, LAMBDA c : Max(c.start, viewStart) < Min(c.end, viewEnd))
    IN  [k \in 1..Len(seen) |->
            OpenInterval(Max(seen[k].start, viewStart), Min(seen[k].end, viewEnd))]

\* The pixel span of a context interval when the view is drawn width pixels wide
PixelSpan(interval, viewStart, viewEnd, width) ==
    OpenInterval(((interval.start - viewStart) * width) \div (viewEnd - viewStart),
                 ((interval.end - viewStart) * width) \div (viewEnd - viewStart))

\* The pairs (c1, c2) of visible intervals of the interaction's two loci
VisiblePairs(interaction) ==
    LET all1 == VisibleIntervals(features, interaction.locus1, call.viewStart, call.viewEnd)
        all2 == VisibleIntervals(features, interaction.locus2, call.viewStart, call.viewEnd)
    IN  [k \in 1..(Len(all1) * Len(all2)) |->
            <<all1[((k - 1) \div Len(all2)) + 1], all2[((k - 1) % Len(all2)) + 1]>>]

\* The number of records emitted for the first n interactions of the call
RECURSIVE RecordsOfFirst(_)
RecordsOfFirst(n) ==
    IF n = 0 THEN 0
    ELSE RecordsOfFirst(n - 1) + Len(VisiblePairs(call.interactions[n]))

(* C12: placeInteractions emits, for each interaction, exactly one           *)
(* PlacedInteraction per pair (c1, c2) of a context interval of locus1 and a *)
(* context interval of locus2 that both overlap the view: the full           *)
(* cross-product, nothing for a pair with a dropped side; in every emitted   *)
(* record xSpan1.start <= xSpan2.start.                                      *)
C12_CrossProduct ==
    Returned("placeInteractions") =>
        /\ err = ""
        /\ Len(ret[1]) = RecordsOfFirst(Len(call.interactions))
        /\ \A q \in 1..Len(call.interactions) :
              LET pairs == VisiblePairs(call.interactions[q])
              IN  \A k \in 1..Len(pairs) :
                     LET record == ret[1][RecordsOfFirst(q - 1) + k]
                         x1 == PixelSpan(pairs[k][1], call.viewStart, call.viewEnd, call.width)
                         x2 == PixelSpan(pairs[k][2], call.viewStart, call.viewEnd, call.width)
                     IN  /\ record.interaction = call.interactions[q]
                         /\ \/ record.xSpan1 = x1 /\ record.xSpan2 = x2
                            \/ record.xSpan1 = x2 /\ record.xSpan2 = x1
        /\ \A j \in 1..Len(ret[1]) : ret[1][j].xSpan1.start <= ret[1][j].xSpan2.start

\* An interaction whose first locus has two context intervals in the view, one
\* of them clipped by it, and whose second locus has one, left of both: two
\* records, both with the spans exchanged
C12_Witness ==
    /\ Returned("placeInteractions")
    /\ Len(call.interactions) = 1
    /\ Len(convertGenomeIntervalToBases(navContext, call.interactions[1].locus1).val) = 2
    /\ Len(convertGenomeIntervalToBases(navContext, call.interactions[1].locus2).val) = 1
    /\ call.viewEnd < navContext.totalBases
    /\ Len(ret[1]) = 2
    /\ \A j \in 1..2 :
          /\ ret[1][j].xSpan1 = PixelSpan(VisiblePairs(call.interactions[1])[j][2],
                                          call.viewStart, call.viewEnd, call.width)
          /\ ret[1][j].xSpan1.start < ret[1][j].xSpan2.start

====
